---- MODULE Spec2Model ----
(***************************************************************************)
(* Titan::Core object system: intrusive reference counting (ObjectBase),   *)
(* the creation / destruction protocol (Object::CreateObject,              *)
(* Object::DestroyObject), the ObjectRegistry and ObjectPtr handles; the   *)
(* Archive protocol over a MemoryArchive, and the Engine's subsystem       *)
(* lifecycle.                                                              *)
(*                                                                         *)
(* Strings are sequences of characters, so GetFullName is a real           *)
(* concatenation with "." and two different Outer chains can resolve to    *)
(* the same full name.                                                     *)
(***************************************************************************)
EXTENDS Integers, Sequences, FiniteSets, TLC

\* ---------------------------------------------------------------- bounds
\* entities ever created by the client of Spec / SpecRaw
MaxObjects == 2
\* ObjectPtr handles existing at a time
MaxHandles == 3
\* worker threads of SpecRC
MaxThreads == 2
\* AddRef calls per entity in SpecRC
MaxRefs == 3
\* entities ever created by the client of SpecReg / SpecTypes
MaxRegObjects == 3
\* direct RegisterObject calls by the client of SpecReg
MaxRegs == 1
\* DestroyObject calls per entity by the client of SpecTwice
MaxDestroys == 2
\* subsystems the client of SpecEngine adds
MaxSubsystems == 2
\* frames the loop of Engine::Run runs
MaxFrames == 2
\* primitive variables the client of SpecAr saves into one archive
MaxValues == 2
\* elements of the vector the client of SpecArr saves
MaxLen == 2

\* ------------------------------------------------------------- universes
Entities == 1..(IF MaxObjects > MaxRegObjects THEN MaxObjects ELSE MaxRegObjects)
Null == 0
Threads == 1..MaxThreads

\* Names a caller passes to CreateObject / SetName: a plain name and a name
\* that itself contains the separator.
NameSet == { <<"a">>, <<"a", ".", "a">> }
\* Names that tell the order of a chain apart, the default name "" among them.
ChainNames == { <<>>, <<"a">>, <<"b">>, <<"a", ".", "b">> }
\* What a read of a reclaimed std::string can yield besides the old bytes.
GarbageName == <<"?">>

NullClass == "nullptr"
BaseClass == "Class"
ConcreteClasses == {"K1", "K2"}
Classes == {BaseClass} \cup ConcreteClasses
SuperClass(c) == IF c = "K2" THEN "K1" ELSE NullClass

F_NeedInitialization == "NeedInitialization"
F_BeginDestroyed == "BeginDestroyed"
F_FinishDestroyed == "FinishDestroyed"

AF_Loading == "Loading"
AF_Saving == "Saving"

VARIABLES
  mem,                \* storage of each entity: "unalloc", "live", "freed"
  Name,               \* ObjectBase::Name
  ClassPrivate,       \* ObjectBase::ClassPrivate
  OuterPrivate,       \* ObjectBase::OuterPrivate
  ObjectFlagsPrivate, \* ObjectBase::ObjectFlagsPrivate, as the set of set bits
  RefCount,           \* ObjectBase::RefCount
  Objects,            \* ObjectRegistry::Objects, full name -> entity
  ObjectsByClass,     \* ObjectRegistry::ObjectsByClass, class -> vector
  Ptr,                \* ObjectPtr::Ptr: how many handles hold each pointer value
  pc,                 \* position of the single client thread inside a call
  cur,                \* the object the running call works on / returns
  postInitCalls,      \* number of PostInitProperties calls per entity
  deleteCount,        \* number of times "delete this" ran per entity
  destroyCalls,       \* number of DestroyObject calls that reached Release
  nameUB,             \* GetFullName has walked a reclaimed Outer
  uaf,                \* a member of a reclaimed entity has been called
  regCalls,           \* number of RegisterObject calls per entity
  regOrder,           \* entities registered and not unregistered since, in call order
  tpc,                \* per worker thread: position inside Release
  tobj,               \* per worker thread: the entity its Release works on
  told,               \* per worker thread: value fetch_sub returned
  held,               \* per worker thread: references it holds per entity
  addRefCalls,        \* completed AddRef calls per entity
  releaseCalls,       \* completed fetch_sub of Release calls per entity
  Flags,              \* Archive::Flags, as the set of set flags
  Data,               \* MemoryArchive::Data
  Position,           \* MemoryArchive::Position
  arError,            \* the error the archive has signalled: "none", "bounds"
  arTruncated,        \* the loading archive was built over fewer bytes than saved
  saved,              \* the variables the client has saved, in order
  loaded,             \* the variables the client has loaded, in order
  dest,               \* the vector the last loading SerializeArray worked on
  m_Subsystems,       \* Engine::m_Subsystems, the subsystems by identity
  m_IsInitialized,    \* Engine::m_IsInitialized
  m_IsRunning,        \* Engine::m_IsRunning
  m_TotalTime,        \* Engine::m_TotalTime, in frames of 1/60 s
  inRun,              \* the client thread is inside Engine::Run
  subsCreated,        \* number of subsystems AddSubsystem has constructed
  subCalls            \* the calls the subsystems have received, in order

objVars == <<mem, Name, ClassPrivate, OuterPrivate, ObjectFlagsPrivate, RefCount>>
regVars == <<Objects, ObjectsByClass>>
ctlVars == <<pc, cur>>
histVars == <<postInitCalls, deleteCount, destroyCalls, nameUB, uaf, regCalls, regOrder>>
thrVars == <<tpc, tobj, told, held>>
cntVars == <<addRefCalls, releaseCalls>>
arVars == <<Flags, Data, Position, arError, arTruncated, saved, loaded, dest>>
engVars == <<m_Subsystems, m_IsInitialized, m_IsRunning, m_TotalTime, inRun,
             subsCreated, subCalls>>
vars == <<mem, Name, ClassPrivate, OuterPrivate, ObjectFlagsPrivate, RefCount,
          Objects, ObjectsByClass, Ptr, pc, cur,
          postInitCalls, deleteCount, destroyCalls, nameUB, uaf, regCalls, regOrder,
          tpc, tobj, told, held, addRefCalls, releaseCalls,
          Flags, Data, Position, arError, arTruncated, saved, loaded, dest,
          m_Subsystems, m_IsInitialized, m_IsRunning, m_TotalTime, inRun,
          subsCreated, subCalls>>

\* ------------------------------------------------------- pure operators
\* the range of int32_t, the width of RefCount
Int32Max == 2147483647
Int32Min == -2147483647 - 1

Live(e) == e # Null /\ mem[e] = "live"

RECURSIVE ChainAlive(_)
\* every entity GetFullName(e) dereferences is still allocated
ChainAlive(e) ==
  IF e = Null THEN TRUE
  ELSE mem[e] = "live" /\ ChainAlive(OuterPrivate[e])

RECURSIVE GetFullName(_)
\* a walk that emits the names entity-first
GetFullNameEntityFirst(e) ==
  IF OuterPrivate[e] # Null
    THEN Name[e] \o <<".">> \o GetFullName(OuterPrivate[e])
    ELSE Name[e]

\* std::string Object::GetFullName() const
GetFullName(e) ==
  IF OuterPrivate[e] # Null
    THEN GetFullName(OuterPrivate[e]) \o <<".">> \o Name[e]
    ELSE Name[e]

\* The values a call of e->GetFullName() can produce: the name, or, when the
\* walk reads a reclaimed Outer, the bytes left there (the old name) or
\* whatever has overwritten them.
FullNameOutcomes(e) ==
  IF ChainAlive(e) THEN {GetFullName(e)}
  ELSE {GetFullName(e), GarbageName}

Range(s) == {s[i] : i \in DOMAIN s}

FindObject(name) == IF name \in DOMAIN Objects THEN Objects[name] ELSE Null

\* a lookup that also collects the entities of the direct subclasses
GetObjectsOfClassWithSubtypes(c) ==
  LET At(k) == IF k \in DOMAIN ObjectsByClass THEN ObjectsByClass[k] ELSE <<>>
  IN  At(c) \o (IF SuperClass("K2") = c THEN At("K2") ELSE <<>>)

GetObjectsOfClass(c) == IF c \in DOMAIN ObjectsByClass THEN ObjectsByClass[c] ELSE <<>>

\* Objects[name] = object
MapPut(m, k, v) == [x \in DOMAIN m \cup {k} |-> IF x = k THEN v ELSE m[x]]
\* Objects.erase(name)
MapErase(m, k) == [x \in DOMAIN m \ {k} |-> m[x]]

(* ObjectBase::ObjectBase, Object::Object and the fields a concrete factory
   fills in *)
Construct(e, c, o, n) ==
  /\ mem' = [mem EXCEPT ![e] = "live"]
  /\ Name' = [Name EXCEPT ![e] = n]
  /\ ClassPrivate' = [ClassPrivate EXCEPT ![e] = c]
  /\ OuterPrivate' = [OuterPrivate EXCEPT ![e] = o]
  /\ ObjectFlagsPrivate' = [ObjectFlagsPrivate EXCEPT ![e] = {F_NeedInitialization}]
  /\ RefCount' = [RefCount EXCEPT ![e] = 1]

\* ------------------------------------------------- ObjectBase (Object.cpp)
\* an increment that is lost
FetchAddLost(c) == c

\* RefCount.fetch_add(1): the value stored
FetchAdd(c) == IF c = Int32Max THEN Int32Min ELSE c + 1

\* RefCount.fetch_sub(1): the value stored
FetchSub(c) == IF c = Int32Min THEN Int32Max ELSE c - 1

\* a Release that compares with the value after the decrement's wrong side
ShouldDeleteOnZero(fetched) == fetched = 0

\* if (RefCount.fetch_sub(1) == 1): fetched is the value before the decrement
ShouldDelete(fetched) == fetched = 1

\* AddFlags(flags)
AddFlags(fl, bits) == fl \cup bits

\* RemoveFlags(flags): ObjectFlagsPrivate &= ~flags
RemoveFlags(fl, bits) == fl \ bits

\* HasFlags(flags): (ObjectFlagsPrivate & flags) != ObjectFlags::None
HasFlags(fl, bits) == fl \cap bits # {}

\* a test of the bit the second teardown phase sets
IsPendingKillOnceFinished(e) == HasFlags(ObjectFlagsPrivate[e], {F_FinishDestroyed})

\* IsPendingKill(): HasFlags(ObjectFlags::BeginDestroyed)
IsPendingKill(e) == HasFlags(ObjectFlagsPrivate[e], {F_BeginDestroyed})

\* ------------------------------------------------------- Class (Object.cpp)
\* a base factory that constructs a plain Object
ClassCreateObjectConstructs(c) == TRUE

\* Class::CreateObject, the base implementation: return nullptr
ClassCreateObjectProduces(c) == FALSE

\* Virtual dispatch of objectClass->CreateObject(outer, name): a concrete
\* type overrides the factory and constructs an instance, the base does not.
FactoryProduces(c) ==
  IF c \in ConcreteClasses THEN TRUE ELSE ClassCreateObjectProduces(c)

\* the storage operator new hands out
NewObject == CHOOSE e \in Entities :
               mem[e] = "unalloc" /\ \A x \in Entities : mem[x] = "unalloc" => e <= x

\* ---------------------------------------------- ObjectRegistry (Object.cpp)
\* Objects.insert({name, object}), which keeps an existing entry
RegisterNameKeepFirst(m, name, object) ==
  IF name \in DOMAIN m THEN m ELSE MapPut(m, name, object)

\* Objects[name] = object
RegisterName(m, name, object) == MapPut(m, name, object)

\* if (objClass) ObjectsByClass[objClass].push_back(object)
RegisterByClass(bc, c, object) ==
  IF c # NullClass
    THEN [x \in DOMAIN bc \cup {c} |->
            IF x = c THEN Append(IF c \in DOMAIN bc THEN bc[c] ELSE <<>>, object)
            ELSE bc[x]]
    ELSE bc

\* Objects.erase(name)
UnregisterName(m, name) == MapErase(m, name)

RECURSIVE RemoveAll(_, _)
\* std::remove(begin, end, object) followed by erase(newEnd, end)
RemoveAll(s, object) ==
  IF s = <<>> THEN <<>>
  ELSE IF Head(s) = object THEN RemoveAll(Tail(s), object)
       ELSE <<Head(s)>> \o RemoveAll(Tail(s), object)

\* a removal by name: it drops whoever the name map holds under that name
UnregisterByClassByName(bc, c, object, name) ==
  IF c # NullClass
    THEN [x \in DOMAIN bc \cup {c} |->
            IF x = c
              THEN RemoveAll(IF c \in DOMAIN bc THEN bc[c] ELSE <<>>,
                             IF name \in DOMAIN Objects THEN Objects[name] ELSE Null)
              ELSE bc[x]]
    ELSE bc

\* if (objClass) { auto& v = ObjectsByClass[objClass]; v.erase(remove(..)) }
\* (operator[] inserts an empty vector for a class that has none)
UnregisterByClass(bc, c, object, name) ==
  IF c # NullClass
    THEN [x \in DOMAIN bc \cup {c} |->
            IF x = c
              THEN RemoveAll(IF c \in DOMAIN bc THEN bc[c] ELSE <<>>, object)
              ELSE bc[x]]
    ELSE bc

(* ObjectRegistry::RegisterObject(object), object # nullptr *)
RegisterObject(object) ==
  \E name \in FullNameOutcomes(object) :
    /\ Objects' = RegisterName(Objects, name, object)
    /\ ObjectsByClass' = RegisterByClass(ObjectsByClass, ClassPrivate[object], object)
    /\ nameUB' = (nameUB \/ ~ChainAlive(object))
    /\ regCalls' = [regCalls EXCEPT ![object] = @ + 1]
    /\ regOrder' = Append(regOrder, object)

(* ObjectRegistry::UnregisterObject(object), object # nullptr *)
UnregisterObject(object) ==
  \E name \in FullNameOutcomes(object) :
    /\ Objects' = UnregisterName(Objects, name)
    /\ ObjectsByClass' = UnregisterByClass(ObjectsByClass, ClassPrivate[object], object, name)
    /\ nameUB' = (nameUB \/ ~ChainAlive(object))
    /\ UNCHANGED regCalls
    /\ regOrder' = RemoveAll(regOrder, object)

InNameMap(e) == \E n \in DOMAIN Objects : Objects[n] = e
InByClass(e) == \E c \in DOMAIN ObjectsByClass : e \in Range(ObjectsByClass[c])
InRegistry(e) == InNameMap(e) \/ InByClass(e)

\* ------------------------------------------ Object::CreateObject (Object.cpp)
\* the statement order of the body of CreateObject once newObject is present
CO_After(step) ==
  CASE step = "CO_Call" -> "CO_Register"
    [] step = "CO_Register" -> "CO_PostInit"
    [] step = "CO_PostInit" -> "CO_Return"

\* if (!objectClass) return nullptr;
\* Object* newObject = objectClass->CreateObject(outer, name);
CO_Call(objectClass, outer, name) ==
  /\ pc = "idle"
  /\ IF objectClass # NullClass /\ FactoryProduces(objectClass)
       THEN /\ Construct(NewObject, objectClass, outer, name)
            /\ cur' = NewObject
            /\ pc' = CO_After("CO_Call")
       ELSE /\ cur' = Null
            /\ pc' = "CO_Return"
            /\ UNCHANGED objVars
  /\ UNCHANGED <<regVars, Ptr, histVars, thrVars, cntVars, arVars, engVars>>

\* ObjectRegistry::Get().RegisterObject(newObject)
CO_Register ==
  /\ pc = "CO_Register"
  /\ RegisterObject(cur)
  /\ pc' = CO_After("CO_Register")
  /\ UNCHANGED <<objVars, Ptr, cur, postInitCalls, deleteCount,
                 destroyCalls, uaf, thrVars, cntVars, arVars, engVars>>

\* newObject->PostInitProperties(): the default hook is empty
CO_PostInit ==
  /\ pc = "CO_PostInit"
  /\ postInitCalls' = [postInitCalls EXCEPT ![cur] = @ + 1]
  /\ pc' = CO_After("CO_PostInit")
  /\ UNCHANGED <<objVars, regVars, Ptr, cur, deleteCount,
                 destroyCalls, nameUB, uaf, regCalls, regOrder, thrVars, cntVars, arVars, engVars>>

\* return newObject
CO_Return ==
  /\ pc = "CO_Return"
  /\ pc' = "idle"
  /\ cur' = Null
  /\ UNCHANGED <<objVars, regVars, Ptr, histVars, thrVars, cntVars, arVars, engVars>>


\* --------------------------------- reference counting on the client thread
\* The part of the state AddRef / Release act on, so that a handler that
\* calls both (ObjectPtr::operator=) composes them in the code's order.
RcState == [rc |-> RefCount, mm |-> mem, dc |-> deleteCount, ua |-> uaf]

\* ObjectBase::AddRef()
AddRefOn(s, e) ==
  [s EXCEPT !.rc[e] = FetchAdd(@), !.ua = (@ \/ s.mm[e] # "live")]

\* ObjectBase::Release(): fetch_sub, and "delete this" when it fetched 1
ReleaseOn(s, e) ==
  [rc |-> [s.rc EXCEPT ![e] = FetchSub(@)],
   mm |-> IF ShouldDelete(s.rc[e]) THEN [s.mm EXCEPT ![e] = "freed"] ELSE s.mm,
   dc |-> IF ShouldDelete(s.rc[e]) THEN [s.dc EXCEPT ![e] = @ + 1] ELSE s.dc,
   ua |-> (s.ua \/ s.mm[e] # "live")]

\* a handle that takes no reference of its own
PtrAddRefSkipped(s, p) == s

\* ObjectPtr::AddRef(): if (Ptr) Ptr->AddRef()
PtrAddRef(s, p) == IF p # Null THEN AddRefOn(s, p) ELSE s

\* ObjectPtr::Release(): if (Ptr) Ptr->Release()
PtrRelease(s, p) == IF p # Null THEN ReleaseOn(s, p) ELSE s

RECURSIVE OuterChain(_)
\* the entities GetFullName(e) walks through above e
OuterChain(e) ==
  IF OuterPrivate[e] = Null THEN {}
  ELSE {OuterPrivate[e]} \cup OuterChain(OuterPrivate[e])

\* "delete this": ~Object and ~ObjectBase run (both empty), the members are
\* destroyed and the storage is returned.  What the reclaimed bytes hold can
\* only be observed through the Outer pointer of a live entity; the fields of
\* a reclaimed entity nothing points to any more are dropped from the state.
Forgotten(s, x) ==
  s.mm[x] = "freed" /\ \A y \in Entities : s.mm[y] = "live" => x \notin OuterChain(y)

SetRcState(s) ==
  /\ RefCount' = [x \in Entities |-> IF Forgotten(s, x) THEN 0 ELSE s.rc[x]]
  /\ mem' = s.mm
  /\ deleteCount' = s.dc
  /\ uaf' = s.ua
  /\ Name' = [x \in Entities |-> IF Forgotten(s, x) THEN <<>> ELSE Name[x]]
  /\ ClassPrivate' =
       [x \in Entities |-> IF Forgotten(s, x) THEN NullClass ELSE ClassPrivate[x]]
  /\ OuterPrivate' =
       [x \in Entities |-> IF Forgotten(s, x) THEN Null ELSE OuterPrivate[x]]
  /\ ObjectFlagsPrivate' =
       [x \in Entities |-> IF Forgotten(s, x) THEN {} ELSE ObjectFlagsPrivate[x]]

\* ----------------------------------------- Object::DestroyObject (Object.cpp)
\* both teardown phases before the unregistration
DO_AfterFinishFirst(step) ==
  CASE step = "DO_BeginDestroy" -> "DO_FinishDestroy"
    [] step = "DO_FinishDestroy" -> "DO_Unregister"
    [] step = "DO_Unregister" -> "DO_Release"
    [] step = "DO_Release" -> "idle"

\* the statement order of the body of DestroyObject
DO_After(step) ==
  CASE step = "DO_BeginDestroy" -> "DO_Unregister"
    [] step = "DO_Unregister" -> "DO_FinishDestroy"
    [] step = "DO_FinishDestroy" -> "DO_Release"
    [] step = "DO_Release" -> "idle"

DO_Steps == {"DO_Unregister", "DO_FinishDestroy", "DO_Release"}

\* if (!object) return; object->BeginDestroy();
DO_Call(object) ==
  /\ pc = "idle"
  /\ cur' = object
  /\ IF object = Null
       THEN /\ pc' = "DO_Return"
            /\ UNCHANGED <<destroyCalls, ObjectFlagsPrivate>>
       ELSE /\ ObjectFlagsPrivate' =
                 [ObjectFlagsPrivate EXCEPT ![object] = AddFlags(@, {F_BeginDestroyed})]
            /\ pc' = DO_After("DO_BeginDestroy")
            /\ destroyCalls' = [destroyCalls EXCEPT ![object] = @ + 1]
  /\ UNCHANGED <<mem, Name, ClassPrivate, OuterPrivate, RefCount, regVars, Ptr,
                 postInitCalls, deleteCount, nameUB, uaf, regCalls, regOrder, thrVars, cntVars, arVars, engVars>>

\* ObjectRegistry::Get().UnregisterObject(object)
DO_Unregister ==
  /\ pc = "DO_Unregister"
  /\ UnregisterObject(cur)
  /\ pc' = DO_After("DO_Unregister")
  /\ UNCHANGED <<objVars, Ptr, cur, postInitCalls, deleteCount,
                 destroyCalls, uaf, thrVars, cntVars, arVars, engVars>>

\* object->FinishDestroy()
DO_FinishDestroy ==
  /\ pc = "DO_FinishDestroy"
  /\ ObjectFlagsPrivate' =
       [ObjectFlagsPrivate EXCEPT ![cur] = AddFlags(@, {F_FinishDestroyed})]
  /\ pc' = DO_After("DO_FinishDestroy")
  /\ UNCHANGED <<mem, Name, ClassPrivate, OuterPrivate, RefCount, regVars, Ptr,
                 cur, histVars, thrVars, cntVars, arVars, engVars>>

\* object->Release()
DO_Release ==
  /\ pc = "DO_Release"
  /\ SetRcState(ReleaseOn(RcState, cur))
  /\ pc' = DO_After("DO_Release")
  /\ cur' = Null
  /\ UNCHANGED <<regVars, Ptr, postInitCalls, destroyCalls, nameUB, regCalls, regOrder,
                 thrVars, cntVars, arVars, engVars>>

DO_Return ==
  /\ pc = "DO_Return"
  /\ pc' = "idle"
  /\ cur' = Null
  /\ UNCHANGED <<objVars, regVars, Ptr, histVars, thrVars, cntVars, arVars, engVars>>

\* the creator's implicit reference has not been released by DestroyObject
CreatorRefHeld(e) ==
  \/ destroyCalls[e] = 0
  \/ cur = e /\ pc \in DO_Steps

\* ------------------------------------------------------ ObjectPtr (Object.h)
\* Handles are anonymous objects: the state keeps, for every pointer value,
\* how many ObjectPtr instances currently hold it in Ptr.
PtrValues == Entities \cup {Null}

RECURSIVE SumOver(_, _)
SumOver(f, S) ==
  IF S = {} THEN 0
  ELSE LET x == CHOOSE y \in S : TRUE IN f[x] + SumOver(f, S \ {x})

NumHandles == SumOver(Ptr, PtrValues)

\* number of handles whose Ptr is e
HandlesOn(e) == Ptr[e]

ptrFrame == <<regVars, ctlVars, postInitCalls, destroyCalls, nameUB, regCalls, regOrder,
              thrVars, cntVars, arVars, engVars>>
ptrNoRc == <<objVars, deleteCount, uaf>>

\* ObjectPtr() : Ptr(nullptr)
PtrDefault ==
  /\ pc = "idle"
  /\ NumHandles < MaxHandles
  /\ Ptr' = [Ptr EXCEPT ![Null] = @ + 1]
  /\ UNCHANGED <<ptrNoRc, ptrFrame>>

\* ObjectPtr(T* ptr) : Ptr(ptr) { AddRef(); }
PtrFromRaw(p) ==
  /\ pc = "idle"
  /\ NumHandles < MaxHandles
  /\ Ptr' = [Ptr EXCEPT ![p] = @ + 1]
  /\ SetRcState(PtrAddRef(RcState, p))
  /\ UNCHANGED ptrFrame

\* ObjectPtr(const ObjectPtr& other) : Ptr(other.Ptr) { AddRef(); }
\* other is a handle holding q
PtrCopy(q) ==
  /\ pc = "idle"
  /\ NumHandles < MaxHandles
  /\ Ptr[q] >= 1
  /\ Ptr' = [Ptr EXCEPT ![q] = @ + 1]
  /\ SetRcState(PtrAddRef(RcState, q))
  /\ UNCHANGED ptrFrame

\* a move constructor that takes a reference as the copy constructor does
PtrMoveAddsRef(q) ==
  /\ pc = "idle"
  /\ NumHandles < MaxHandles
  /\ Ptr[q] >= 1
  /\ Ptr' = [Ptr EXCEPT ![Null] = @ + 1]
  /\ SetRcState(PtrAddRef(RcState, q))
  /\ UNCHANGED ptrFrame

\* ObjectPtr(ObjectPtr&& other) : Ptr(other.Ptr) { other.Ptr = nullptr; }
\* the new handle holds q and other, which held q, holds nullptr
PtrMove(q) ==
  /\ pc = "idle"
  /\ NumHandles < MaxHandles
  /\ Ptr[q] >= 1
  /\ Ptr' = [Ptr EXCEPT ![Null] = @ + 1]
  /\ UNCHANGED <<ptrNoRc, ptrFrame>>

\* two distinct handles holding p and q exist
TwoHandles(p, q) ==
  /\ Ptr[p] >= 1
  /\ Ptr[q] >= 1
  /\ p = q => Ptr[p] >= 2

\* a copy assignment that forgets to release what *this held
PtrCopyAssignKeepsOld(p, q, self) ==
  /\ pc = "idle"
  /\ IF ~self
       THEN /\ TwoHandles(p, q)
            /\ SetRcState(PtrAddRef(RcState, q))
            /\ Ptr' = [x \in PtrValues |->
                         Ptr[x] - (IF x = p THEN 1 ELSE 0) + (IF x = q THEN 1 ELSE 0)]
       ELSE /\ p = q
            /\ Ptr[p] >= 1
            /\ UNCHANGED <<ptrNoRc, Ptr>>
  /\ UNCHANGED ptrFrame

\* ObjectPtr& operator=(const ObjectPtr& other): *this holds p, other holds q;
\* self says that other is *this
PtrCopyAssign(p, q, self) ==
  /\ pc = "idle"
  /\ IF ~self
       THEN /\ TwoHandles(p, q)
            /\ SetRcState(PtrAddRef(PtrRelease(RcState, p), q))
            /\ Ptr' = [x \in PtrValues |->
                         Ptr[x] - (IF x = p THEN 1 ELSE 0) + (IF x = q THEN 1 ELSE 0)]
       ELSE /\ p = q
            /\ Ptr[p] >= 1
            /\ UNCHANGED <<ptrNoRc, Ptr>>
  /\ UNCHANGED ptrFrame

\* ObjectPtr& operator=(ObjectPtr&& other): *this holds p, other holds q
PtrMoveAssign(p, q, self) ==
  /\ pc = "idle"
  /\ IF ~self
       THEN /\ TwoHandles(p, q)
            /\ SetRcState(PtrRelease(RcState, p))
            /\ Ptr' = [x \in PtrValues |->
                         Ptr[x] - (IF x = p THEN 1 ELSE 0) + (IF x = Null THEN 1 ELSE 0)]
       ELSE /\ p = q
            /\ Ptr[p] >= 1
            /\ UNCHANGED <<ptrNoRc, Ptr>>
  /\ UNCHANGED ptrFrame

\* a validity test that also looks at the flags of the entity
IsValidAndNotPendingKill(p) == p # Null /\ F_BeginDestroyed \notin ObjectFlagsPrivate[p]

\* bool IsValid() const { return Ptr != nullptr; }, of a handle holding p
IsValid(p) == p # Null

\* operator bool() const { return Ptr != nullptr; }
OperatorBool(p) == p # Null

\* bool operator!() const { return Ptr == nullptr; }
OperatorNot(p) == p = Null

\* a destructor that keeps the reference of the handle
PtrDestroyKeepsRef(p) ==
  /\ pc = "idle"
  /\ Ptr[p] >= 1
  /\ Ptr' = [Ptr EXCEPT ![p] = @ - 1]
  /\ UNCHANGED <<ptrNoRc, ptrFrame>>

\* ~ObjectPtr() { Release(); }
PtrDestroy(p) ==
  /\ pc = "idle"
  /\ Ptr[p] >= 1
  /\ SetRcState(PtrRelease(RcState, p))
  /\ Ptr' = [Ptr EXCEPT ![p] = @ - 1]
  /\ UNCHANGED ptrFrame


Init ==
  /\ mem = [e \in Entities |-> "unalloc"]
  /\ Name = [e \in Entities |-> <<>>]
  /\ ClassPrivate = [e \in Entities |-> NullClass]
  /\ OuterPrivate = [e \in Entities |-> Null]
  /\ ObjectFlagsPrivate = [e \in Entities |-> {}]
  /\ RefCount = [e \in Entities |-> 0]
  /\ Objects = <<>>
  /\ ObjectsByClass = [c \in {} |-> <<>>]
  /\ Ptr = [p \in PtrValues |-> 0]
  /\ pc = "idle"
  /\ cur = Null
  /\ postInitCalls = [e \in Entities |-> 0]
  /\ deleteCount = [e \in Entities |-> 0]
  /\ destroyCalls = [e \in Entities |-> 0]
  /\ nameUB = FALSE
  /\ uaf = FALSE
  /\ regCalls = [e \in Entities |-> 0]
  /\ regOrder = <<>>
  /\ tpc = [t \in Threads |-> "idle"]
  /\ tobj = [t \in Threads |-> Null]
  /\ told = [t \in Threads |-> 0]
  /\ held = [t \in Threads |-> [e \in Entities |-> 0]]
  /\ addRefCalls = [e \in Entities |-> 0]
  /\ releaseCalls = [e \in Entities |-> 0]
  /\ Flags = {AF_Saving}
  /\ Data = <<>>
  /\ Position = 0
  /\ arError = "none"
  /\ arTruncated = FALSE
  /\ saved = <<>>
  /\ loaded = <<>>
  /\ dest = <<>>
  /\ m_Subsystems = <<>>
  /\ m_IsInitialized = FALSE
  /\ m_IsRunning = FALSE
  /\ m_TotalTime = 0
  /\ inRun = FALSE
  /\ subsCreated = 0
  /\ subCalls = <<>>

\* --------------------------------------------- calls made by other clients
\* object->Release() on a raw pointer, from the client thread
RawRelease(object) ==
  /\ pc = "idle"
  /\ SetRcState(ReleaseOn(RcState, object))
  /\ UNCHANGED <<regVars, Ptr, ctlVars, postInitCalls, destroyCalls, nameUB,
                 regCalls, regOrder, thrVars, cntVars, arVars, engVars>>

\* ObjectBase::SetName
SetName(object, name) ==
  /\ pc = "idle"
  /\ Name' = [Name EXCEPT ![object] = name]
  /\ UNCHANGED <<mem, ClassPrivate, OuterPrivate, ObjectFlagsPrivate, RefCount,
                 regVars, Ptr, ctlVars, histVars, thrVars, cntVars, arVars, engVars>>

\* the flag arguments the clients of the model pass: no bit, the bit
\* IsPendingKill reads, the other bits
FlagArgs == {{}, {F_BeginDestroyed}, {F_NeedInitialization, F_FinishDestroyed}}

flagFrame == <<mem, Name, ClassPrivate, OuterPrivate, RefCount, regVars, Ptr,
               ctlVars, histVars, thrVars, cntVars, arVars, engVars>>

\* object->SetFlags(flags)
Flags_Set(object, flags) ==
  /\ pc = "idle"
  /\ ObjectFlagsPrivate' = [ObjectFlagsPrivate EXCEPT ![object] = flags]
  /\ UNCHANGED flagFrame

\* object->AddFlags(flags)
Flags_Add(object, flags) ==
  /\ pc = "idle"
  /\ ObjectFlagsPrivate' = [ObjectFlagsPrivate EXCEPT ![object] = AddFlags(@, flags)]
  /\ UNCHANGED flagFrame

\* object->RemoveFlags(flags)
Flags_Remove(object, flags) ==
  /\ pc = "idle"
  /\ ObjectFlagsPrivate' = [ObjectFlagsPrivate EXCEPT ![object] = RemoveFlags(@, flags)]
  /\ UNCHANGED flagFrame

\* ObjectRegistry::Get().RegisterObject(object), called directly
Reg_Register(object) ==
  /\ pc = "idle"
  /\ IF object # Null
       THEN RegisterObject(object)
       ELSE UNCHANGED <<regVars, nameUB, regCalls, regOrder>>
  /\ UNCHANGED <<objVars, Ptr, ctlVars, postInitCalls, deleteCount, destroyCalls,
                 uaf, thrVars, cntVars, arVars, engVars>>

\* ObjectRegistry::Get().UnregisterObject(object), called directly
Reg_Unregister(object) ==
  /\ pc = "idle"
  /\ IF object # Null
       THEN UnregisterObject(object)
       ELSE UNCHANGED <<regVars, nameUB, regCalls, regOrder>>
  /\ UNCHANGED <<objVars, Ptr, ctlVars, postInitCalls, deleteCount, destroyCalls,
                 uaf, thrVars, cntVars, arVars, engVars>>

\* ------------------------------------------- worker threads (AddRef/Release)
mainFrame == <<regVars, Ptr, ctlVars, postInitCalls, destroyCalls, nameUB, uaf,
               regCalls, regOrder, arVars, engVars>>

\* new Object(): the constructing thread holds the first reference
T_New(t) ==
  /\ tpc[t] = "idle"
  /\ Construct(NewObject, NullClass, Null, <<>>)
  /\ held' = [held EXCEPT ![t][NewObject] = 1]
  /\ UNCHANGED <<mainFrame, deleteCount, tpc, tobj, told, cntVars>>

\* e->AddRef() by a thread that holds a reference; the new reference goes to u
T_AddRef(t, u, e) ==
  /\ tpc[t] = "idle"
  /\ held[t][e] >= 1
  /\ RefCount' = [RefCount EXCEPT ![e] = FetchAdd(@)]
  /\ held' = [held EXCEPT ![u][e] = @ + 1]
  /\ addRefCalls' = [addRefCalls EXCEPT ![e] = @ + 1]
  /\ UNCHANGED <<mainFrame, mem, Name, ClassPrivate, OuterPrivate,
                 ObjectFlagsPrivate, deleteCount, tpc, tobj, told, releaseCalls>>

\* e->Release(), first half: RefCount.fetch_sub(1)
T_ReleaseFetch(t, e) ==
  /\ tpc[t] = "idle"
  /\ held[t][e] >= 1
  /\ told' = [told EXCEPT ![t] = RefCount[e]]
  /\ RefCount' = [RefCount EXCEPT ![e] = FetchSub(@)]
  /\ held' = [held EXCEPT ![t][e] = @ - 1]
  /\ releaseCalls' = [releaseCalls EXCEPT ![e] = @ + 1]
  /\ tpc' = [tpc EXCEPT ![t] = "Release"]
  /\ tobj' = [tobj EXCEPT ![t] = e]
  /\ UNCHANGED <<mainFrame, mem, Name, ClassPrivate, OuterPrivate,
                 ObjectFlagsPrivate, deleteCount, addRefCalls>>

\* e->Release(), second half: if (fetched == 1) delete this
T_ReleaseDelete(t) ==
  /\ tpc[t] = "Release"
  /\ IF ShouldDelete(told[t])
       THEN /\ mem' = [mem EXCEPT ![tobj[t]] = "freed"]
            /\ deleteCount' = [deleteCount EXCEPT ![tobj[t]] = @ + 1]
       ELSE UNCHANGED <<mem, deleteCount>>
  /\ tpc' = [tpc EXCEPT ![t] = "idle"]
  /\ tobj' = [tobj EXCEPT ![t] = Null]
  /\ told' = [told EXCEPT ![t] = 0]
  /\ UNCHANGED <<mainFrame, Name, ClassPrivate, OuterPrivate, ObjectFlagsPrivate,
                 RefCount, held, cntVars>>

\* ------------------------------------------------------ Archive (Archive.h)
(* An archive value: the base Archive's Flags and the MemoryArchive's Data
   and Position, plus the error kind it has signalled. *)
Archive == [Flags |-> Flags, Data |-> Data, Position |-> Position, err |-> arError]

IsLoading(ar) == AF_Loading \in ar.Flags
IsSavingAnyFlag(ar) == ar.Flags # {}
IsSaving(ar) == AF_Saving \in ar.Flags

(* MemoryArchive(bool loading = false) *)
MemoryArchiveNew(loading) ==
  [Flags |-> IF loading THEN {AF_Loading} ELSE {AF_Saving},
   Data |-> <<>>, Position |-> 0, err |-> "none"]

(* MemoryArchive(const std::vector<uint8_t>& data, bool loading = true) *)
MemoryArchiveOver(data, loading) ==
  [Flags |-> IF loading THEN {AF_Loading} ELSE {AF_Saving},
   Data |-> data, Position |-> 0, err |-> "none"]

\* the primitive types operator<< is overloaded for (float and double left out)
PrimTypes == {"bool", "int8", "uint8", "int16", "uint16", "int32", "uint32",
              "int64", "uint64", "string"}
Width(t) ==
  CASE t \in {"bool", "int8", "uint8"} -> 1
    [] t \in {"int16", "uint16"} -> 2
    [] t \in {"int32", "uint32"} -> 4
    [] t \in {"int64", "uint64"} -> 8
IsSigned(t) == t \in {"int8", "int16", "int32", "int64"}
\* a freshly declared variable of type t
DefaultValue(t) == IF t = "bool" THEN FALSE ELSE IF t = "string" THEN <<>> ELSE 0

\* byte value of a character, and back
CharCode == [c \in {"a", "b"} |-> IF c = "a" THEN 97 ELSE 98]
CodeChar(b) == IF b = 97 THEN "a" ELSE IF b = 98 THEN "b" ELSE "?"

\* the n low bytes of v, least significant first (two's complement for v < 0)
RECURSIVE ToBytes(_, _)
ToBytes(v, n) == IF n = 0 THEN <<>> ELSE <<v % 256>> \o ToBytes(v \div 256, n - 1)

RECURSIVE FromBytesU(_)
FromBytesU(bs) == IF bs = <<>> THEN 0 ELSE bs[1] + 256 * FromBytesU(Tail(bs))

FromBytesS(bs) ==
  IF bs[Len(bs)] >= 128
  THEN -FromBytesU([i \in 1..Len(bs) |-> 255 - bs[i]]) - 1
  ELSE FromBytesU(bs)

\* the bytes a saving archive writes for variable v of type t
Encode(t, v) ==
  IF t = "bool" THEN <<IF v THEN 1 ELSE 0>>
  ELSE IF t = "string"
  THEN ToBytes(Len(v), 4) \o [i \in 1..Len(v) |-> CharCode[v[i]]]
  ELSE ToBytes(v, Width(t))

\* the value a loading archive makes of the bytes of a fixed-width type
DecodeUnsignedOnly(t, bs) ==
  IF t = "bool" THEN bs[1] # 0 ELSE FromBytesU(bs)

Decode(t, bs) ==
  IF t = "bool" THEN bs[1] # 0
  ELSE IF IsSigned(t) THEN FromBytesS(bs) ELSE FromBytesU(bs)

Remaining(ar) == Len(ar.Data) - ar.Position
ReadBytes(ar, n) == SubSeq(ar.Data, ar.Position + 1, ar.Position + n)
Advance(ar, n) == [ar EXCEPT !.Position = @ + n]
\* reading past the end signals the bounds error and touches nothing else
OutOfBounds(ar, v) == [ar |-> [ar EXCEPT !.err = "bounds"], v |-> v]

\* bytes written at the cursor: overwrite what is there, grow past the end
WriteAt(data, pos, bs) ==
  SubSeq(data, 1, pos) \o bs \o SubSeq(data, pos + Len(bs) + 1, Len(data))

SaveValue(ar, t, v) ==
  LET bs == Encode(t, v)
  IN [ar |-> [ar EXCEPT !.Data = WriteAt(@, ar.Position, bs),
                         !.Position = @ + Len(bs)],
      v |-> v]

LoadValueZeroFill(ar, t, v) ==
  IF t = "string"
  THEN IF Remaining(ar) < 4 THEN [ar |-> Advance(ar, Remaining(ar)), v |-> <<>>]
       ELSE LET n == FromBytesU(ReadBytes(ar, 4))
            IN IF Remaining(ar) - 4 < n
               THEN [ar |-> Advance(ar, Remaining(ar)), v |-> <<>>]
               ELSE [ar |-> Advance(ar, 4 + n),
                     v |-> [i \in 1..n |-> CodeChar(ar.Data[ar.Position + 4 + i])]]
  ELSE IF Remaining(ar) < Width(t)
       THEN [ar |-> Advance(ar, Remaining(ar)), v |-> DefaultValue(t)]
       ELSE [ar |-> Advance(ar, Width(t)), v |-> Decode(t, ReadBytes(ar, Width(t)))]

LoadValue(ar, t, v) ==
  IF t = "string"
  THEN IF Remaining(ar) < 4 THEN OutOfBounds(ar, v)
       ELSE LET n == FromBytesU(ReadBytes(ar, 4))
            IN IF Remaining(ar) - 4 < n THEN OutOfBounds(ar, v)
               ELSE [ar |-> Advance(ar, 4 + n),
                     v |-> [i \in 1..n |-> CodeChar(ar.Data[ar.Position + 4 + i])]]
  ELSE IF Remaining(ar) < Width(t) THEN OutOfBounds(ar, v)
       ELSE [ar |-> Advance(ar, Width(t)), v |-> Decode(t, ReadBytes(ar, Width(t)))]

(* MemoryArchive::operator<<(T& value): the archive and the variable after
   the call *)
Serialize(ar, t, v) ==
  IF IsSaving(ar) THEN SaveValue(ar, t, v)
  ELSE IF IsLoading(ar) THEN LoadValue(ar, t, v)
  ELSE [ar |-> ar, v |-> v]

\* std::vector::resize(n): cut, or fill with value-initialised elements
Resize(array, n, t) ==
  [i \in 1..n |-> IF i <= Len(array) THEN array[i] ELSE DefaultValue(t)]

\* for (auto& element : array) *this << element;  from element i on; an
\* error signalled by operator<< leaves the loop
RECURSIVE SerializeElements(_, _, _, _)
SerializeElements(ar, t, array, i) ==
  IF i > Len(array) THEN [ar |-> ar, v |-> array]
  ELSE LET r == Serialize(ar, t, array[i])
       IN IF r.ar.err # "none" THEN [ar |-> r.ar, v |-> array]
          ELSE SerializeElements(r.ar, t, [array EXCEPT ![i] = r.v], i + 1)

SerializeArrayNoResize(ar, t, array) ==
  LET r == Serialize(ar, "uint32", Len(array))
  IN IF r.ar.err # "none" THEN [ar |-> r.ar, v |-> array]
     ELSE SerializeElements(r.ar, t, array, 1)

(* Archive::SerializeArray(std::vector<T>& array) *)
SerializeArray(ar, t, array) ==
  LET r == Serialize(ar, "uint32", Len(array))
  IN IF r.ar.err # "none" THEN [ar |-> r.ar, v |-> array]
     ELSE SerializeElements(r.ar, t,
                            IF IsLoading(ar) THEN Resize(array, r.v, t) ELSE array, 1)

\* ------------------------------------------------- clients of the archive
\* values the client saves: the extremes of each type, within 32-bit integers
PrimSamples(t) ==
  CASE t = "bool" -> {TRUE, FALSE}
    [] t = "int8" -> {-128}
    [] t = "uint8" -> {255}
    [] t = "int16" -> {-2}
    [] t = "uint16" -> {65535}
    [] t = "int32" -> {-2147483647}
    [] t = "uint32" -> {2147483647}
    [] t = "int64" -> {-1}
    [] t = "uint64" -> {16777216}
    [] t = "string" -> {<<>>, <<"a", "b">>}

\* element types and elements of the vectors the client saves
ArrayTypes == {"uint8", "int16", "string"}
ElemSamples(t) ==
  CASE t = "uint8" -> {1, 255}
    [] t = "int16" -> {-2, 300}
    [] t = "string" -> {<<>>, <<"a", "b">>}
ArraySamples(t) ==
  UNION {[1..n -> ElemSamples(t)] : n \in 0..MaxLen}
\* what the destination vector holds before a loading SerializeArray
DestSamples(t) == {<<>>, <<DefaultValue(t), DefaultValue(t), DefaultValue(t)>>}

\* element type of the vector the client has saved
SavedType == IF saved = <<>> THEN "uint8" ELSE saved[1].type

SetArchive(ar) ==
  /\ Flags' = ar.Flags
  /\ Data' = ar.Data
  /\ Position' = ar.Position
  /\ arError' = ar.err

arFrameObj == <<objVars, regVars, Ptr, ctlVars, histVars, thrVars, cntVars>>
arFrame == <<arFrameObj, engVars>>

(* ar << value; on a saving archive, value of type t *)
Ar_Save(t, v) ==
  /\ IsSaving(Archive)
  /\ Len(saved) < MaxValues
  /\ SetArchive(Serialize(Archive, t, v).ar)
  /\ saved' = Append(saved, [type |-> t, val |-> v])
  /\ UNCHANGED <<arTruncated, loaded, dest, arFrame>>

(* ar.SerializeArray(array); on a saving archive, a vector of type t *)
Ar_SaveArray(t, array) ==
  /\ IsSaving(Archive)
  /\ saved = <<>>
  /\ SetArchive(SerializeArray(Archive, t, array).ar)
  /\ saved' = <<[type |-> t, val |-> array]>>
  /\ UNCHANGED <<arTruncated, loaded, dest, arFrame>>

(* MemoryArchive loader(saver.GetData() cut to k bytes, true); the client's
   destination vector holds d *)
Ar_Open(k, d) ==
  /\ IsSaving(Archive)
  /\ saved # <<>>
  /\ k \in 0..Len(Data)
  /\ SetArchive(MemoryArchiveOver(SubSeq(Data, 1, k), TRUE))
  /\ arTruncated' = (k < Len(Data))
  /\ dest' = d
  /\ UNCHANGED <<saved, loaded, arFrame>>

\* the variable the client loads next: the one it saved at the same place
NextSaved == saved[Len(loaded) + 1]

(* T value{}; ar << value; on a loading archive *)
Ar_Load ==
  /\ IsLoading(Archive)
  /\ arError = "none"
  /\ Len(loaded) < Len(saved)
  /\ LET t == NextSaved.type
         r == Serialize(Archive, t, DefaultValue(t))
     IN /\ SetArchive(r.ar)
        /\ loaded' = IF r.ar.err = "none"
                     THEN Append(loaded, [type |-> t, val |-> r.v])
                     ELSE loaded
  /\ UNCHANGED <<arTruncated, saved, dest, arFrame>>

(* ar.SerializeArray(dest); on a loading archive *)
Ar_LoadArray ==
  /\ IsLoading(Archive)
  /\ arError = "none"
  /\ Len(loaded) < Len(saved)
  /\ LET t == NextSaved.type
         r == SerializeArray(Archive, t, dest)
     IN /\ SetArchive(r.ar)
        /\ dest' = r.v
        /\ loaded' = IF r.ar.err = "none"
                     THEN Append(loaded, [type |-> t, val |-> r.v])
                     ELSE loaded
  /\ UNCHANGED <<arTruncated, saved, arFrame>>

(* MemoryArchive::Seek(int64_t position) *)
SeekTo(ar, position) == [ar EXCEPT !.Position = position]

(* MemoryArchive ar(loading); the client goes on with the new archive *)
Ar_Construct(loading) ==
  /\ SetArchive(MemoryArchiveNew(loading))
  /\ arTruncated' = FALSE
  /\ saved' = <<>>
  /\ loaded' = <<>>
  /\ dest' = <<>>
  /\ UNCHANGED arFrame

(* ar.Seek(0); a saving client rewrites the buffer from its start, a loading
   client reads it again from its start *)
Ar_Rewind ==
  /\ Position > 0
  /\ SetArchive(SeekTo(Archive, 0))
  /\ saved' = IF IsSaving(Archive) THEN <<>> ELSE saved
  /\ loaded' = IF IsLoading(Archive) THEN <<>> ELSE loaded
  /\ UNCHANGED <<arTruncated, dest, arFrame>>

\* -------------------------------------------------- Engine (Engine.cpp)
\* The part of the engine Initialize, Shutdown and Update act on, so that
\* Run, which calls Initialize, composes them in the code's order.
EngState == [subs |-> m_Subsystems, init |-> m_IsInitialized,
             running |-> m_IsRunning, calls |-> subCalls]

SetEngState(g) ==
  /\ m_Subsystems' = g.subs
  /\ m_IsInitialized' = g.init
  /\ m_IsRunning' = g.running
  /\ subCalls' = g.calls

\* subsystem->call() for the subsystems of the sequence subs, in its order
RECURSIVE CallEach(_, _, _)
CallEach(calls, subs, call) ==
  IF subs = <<>> THEN calls
  ELSE CallEach(Append(calls, [sub |-> Head(subs), call |-> call]), Tail(subs), call)

Reverse(q) == [i \in 1..Len(q) |-> q[Len(q) + 1 - i]]

(* Engine::Initialize() *)
EngInitialize(g) ==
  IF g.init THEN g
  ELSE [g EXCEPT !.calls = CallEach(@, g.subs, "Initialize"),
                 !.init = TRUE,
                 !.running = TRUE]

(* Engine::Shutdown() *)
EngShutdown(g) ==
  IF ~g.init THEN g
  ELSE [g EXCEPT !.running = FALSE,
                 !.calls = CallEach(@, Reverse(g.subs), "Shutdown"),
                 !.subs = <<>>,
                 !.init = FALSE]

(* Engine::Update(float deltaTime) *)
EngUpdate(g) == [g EXCEPT !.calls = CallEach(@, g.subs, "Update")]

(* engine.AddSubsystem<T>() *)
Eng_AddSubsystem ==
  /\ subsCreated < MaxSubsystems
  /\ subsCreated' = subsCreated + 1
  /\ m_Subsystems' = Append(m_Subsystems, subsCreated + 1)
  /\ UNCHANGED <<m_IsInitialized, m_IsRunning, m_TotalTime, inRun, subCalls,
                 arFrameObj, arVars>>

(* engine.Initialize() *)
Eng_Initialize ==
  /\ SetEngState(EngInitialize(EngState))
  /\ UNCHANGED <<m_TotalTime, inRun, subsCreated, arFrameObj, arVars>>

(* engine.Shutdown() *)
Eng_Shutdown ==
  /\ SetEngState(EngShutdown(EngState))
  /\ UNCHANGED <<m_TotalTime, inRun, subsCreated, arFrameObj, arVars>>

(* engine.Run(): if (!m_IsInitialized) Initialize(); up to the loop *)
Eng_Run ==
  /\ ~inRun
  /\ inRun' = TRUE
  /\ SetEngState(IF ~m_IsInitialized THEN EngInitialize(EngState) ELSE EngState)
  /\ UNCHANGED <<m_TotalTime, subsCreated, arFrameObj, arVars>>

(* one turn of while (m_IsRunning): the time advances, Update, Render *)
Eng_Frame ==
  /\ inRun
  /\ m_IsRunning
  /\ m_TotalTime < MaxFrames
  /\ m_TotalTime' = m_TotalTime + 1
  /\ SetEngState(EngUpdate(EngState))
  /\ UNCHANGED <<inRun, subsCreated, arFrameObj, arVars>>

(* while (m_IsRunning) finds the flag cleared: Run returns *)
Eng_RunReturn ==
  /\ inRun
  /\ ~m_IsRunning
  /\ inRun' = FALSE
  /\ UNCHANGED <<m_Subsystems, m_IsInitialized, m_IsRunning, m_TotalTime,
                 subsCreated, subCalls, arFrameObj, arVars>>

\* -------------------------------------------------------- specifications
NumAllocated == Cardinality({e \in Entities : mem[e] # "unalloc"})

\* The raw pointers a client can pass: absent, or an entity it knows alive.
RawPointers == {Null} \cup {e \in Entities : mem[e] = "live"}

\* CreateObject while the client has created fewer than limit entities
CreateObjectNamed(limit, outers, classes, names) ==
  \/ \E c \in classes, o \in outers, n \in names :
       /\ (c # NullClass /\ FactoryProduces(c)) => NumAllocated < limit
       /\ CO_Call(c, o, n)
  \/ CO_Register
  \/ CO_PostInit
  \/ CO_Return

CreateObjectUpTo(limit, outers, classes) ==
  CreateObjectNamed(limit, outers, classes, NameSet)

\* the classes the client of Spec passes: absent, the base Class, one concrete
OneConcrete == {NullClass, BaseClass, "K1"}
OnlyConcrete == {"K1"}
AllClasses == Classes \cup {NullClass}

CreateObject == CreateObjectUpTo(MaxObjects, RawPointers, OneConcrete)

\* DestroyObject, called at most once per entity
DestroyObject ==
  \/ \E p \in RawPointers : (p # Null => destroyCalls[p] = 0) /\ DO_Call(p)
  \/ DO_Unregister
  \/ DO_FinishDestroy
  \/ DO_Release
  \/ DO_Return

ObjectPtrOps ==
  \/ PtrDefault
  \/ \E p \in RawPointers : PtrFromRaw(p)
  \/ \E q \in PtrValues : PtrCopy(q)
  \/ \E q \in PtrValues : PtrMove(q)
  \/ \E p, q \in PtrValues, self \in BOOLEAN : PtrCopyAssign(p, q, self)
  \/ \E p, q \in PtrValues, self \in BOOLEAN : PtrMoveAssign(p, q, self)
  \/ \E p \in PtrValues : PtrDestroy(p)

Next == CreateObject \/ DestroyObject \/ ObjectPtrOps

\* the creation / destruction protocol and ObjectPtr, on one thread
Spec == Init /\ [][Next]_vars

\* DestroyObject, called fewer than limit times on the entity before
DestroyObjectUpTo(limit) ==
  \/ \E p \in RawPointers : (p # Null => destroyCalls[p] < limit) /\ DO_Call(p)
  \/ DO_Unregister
  \/ DO_FinishDestroy
  \/ DO_Release
  \/ DO_Return

\* a client that may call DestroyObject again on an entity that is still alive
NextTwice ==
  ~uaf /\ \/ CreateObjectUpTo(MaxObjects, {Null}, OnlyConcrete)
          \/ DestroyObjectUpTo(MaxDestroys)
          \/ ObjectPtrOps

SpecTwice == Init /\ [][NextTwice]_vars

RawReleaseCall == \E e \in RawPointers \ {Null} : RawRelease(e)

\* a call on a reclaimed entity corrupts the heap: nothing is modelled after it
NextRaw == ~uaf /\ (Next \/ RawReleaseCall)

\* ... and a client that also calls Release() on raw pointers
SpecRaw == Init /\ [][NextRaw]_vars

\* RegisterObject calls made so far besides the one of each CreateObject
DirectRegs == SumOver(regCalls, Entities) - NumAllocated

RegistryCalls ==
  \/ \E e \in RawPointers \ {Null}, n \in NameSet : SetName(e, n)
  \/ \E p \in RawPointers : DirectRegs < MaxRegs /\ Reg_Register(p)
  \/ \E p \in RawPointers : Reg_Unregister(p)

NextReg == CreateObjectUpTo(MaxRegObjects, {Null}, OnlyConcrete) \/ RegistryCalls

\* the registry used directly, with entities renamed while registered
SpecReg == Init /\ [][NextReg]_vars

NextCreate == CreateObjectUpTo(MaxRegObjects, RawPointers, OneConcrete) \/ DestroyObject

\* creation and destruction only, with longer Outer chains
SpecCreate == Init /\ [][NextCreate]_vars

NextTypes ==
  \/ CreateObjectUpTo(MaxRegObjects, RawPointers, AllClasses)
  \/ \E p \in RawPointers \ {Null} : Reg_Unregister(p)

\* entities of several classes created and unregistered
SpecTypes == Init /\ [][NextTypes]_vars

\* SpecRC follows the counter of one entity
NextRC ==
  \/ \E t \in Threads : NumAllocated = 0 /\ T_New(t)
  \/ \E t, u \in Threads, e \in Entities :
       mem[e] = "live" /\ addRefCalls[e] < MaxRefs /\ T_AddRef(t, u, e)
  \/ \E t \in Threads, e \in Entities : mem[e] = "live" /\ T_ReleaseFetch(t, e)
  \/ \E t \in Threads : T_ReleaseDelete(t)

\* AddRef / Release called concurrently by threads that hold references
SpecRC == Init /\ [][NextRC]_vars

FlagCalls ==
  \/ \E e \in RawPointers \ {Null}, fl \in FlagArgs : Flags_Set(e, fl)
  \/ \E e \in RawPointers \ {Null}, fl \in FlagArgs : Flags_Add(e, fl)
  \/ \E e \in RawPointers \ {Null}, fl \in FlagArgs : Flags_Remove(e, fl)

NextFlags ==
  \/ CreateObjectUpTo(MaxObjects, {Null}, OnlyConcrete)
  \/ DestroyObject
  \/ FlagCalls
  \/ \E p \in RawPointers \ {Null} : Ptr[p] = 0 /\ PtrFromRaw(p)
  \/ \E p \in Entities : PtrDestroy(p)

\* the flag accessors called on entities through their life, handles keeping
\* entities alive after DestroyObject
SpecFlags == Init /\ [][NextFlags]_vars

NextNames == CreateObjectNamed(MaxRegObjects, RawPointers, OnlyConcrete, ChainNames)

\* entities created inside one another under names that differ
SpecNames == Init /\ [][NextNames]_vars

\* primitive variables through a memory archive and back
NextAr ==
  \/ \E t \in PrimTypes : \E v \in PrimSamples(t) : Ar_Save(t, v)
  \/ \E k \in 0..Len(Data) : Ar_Open(k, <<>>)
  \/ Ar_Load

SpecAr == Init /\ [][NextAr]_vars

\* one vector through a memory archive and back
NextArr ==
  \/ \E t \in ArrayTypes : \E a \in ArraySamples(t) : Ar_SaveArray(t, a)
  \/ \E k \in 0..Len(Data) : \E d \in DestSamples(SavedType) : Ar_Open(k, d)
  \/ Ar_LoadArray

SpecArr == Init /\ [][NextArr]_vars

\* every archive operation, on archives of either direction
DirTypes == {"bool", "int16"}
\* the archive of the client holds a vector, not single variables
VectorSaved == saved # <<>> /\ saved[1].type = "uint8"

NextDir ==
  \/ \E loading \in BOOLEAN : Ar_Construct(loading)
  \/ \E t \in DirTypes : \E v \in PrimSamples(t) : ~VectorSaved /\ Ar_Save(t, v)
  \/ \E a \in ArraySamples("uint8") : Ar_SaveArray("uint8", a)
  \/ \E k \in 0..Len(Data) : Ar_Open(k, <<>>)
  \/ ~VectorSaved /\ Ar_Load
  \/ VectorSaved /\ Ar_LoadArray
  \/ Ar_Rewind

SpecDir == Init /\ [][NextDir]_vars

\* the engine driven through its public entry points; Initialize, Shutdown
\* and AddSubsystem may also be called between two frames of Run
NextEngine ==
  \/ Eng_AddSubsystem
  \/ Eng_Initialize
  \/ Eng_Shutdown
  \/ Eng_Run
  \/ Eng_Frame
  \/ Eng_RunReturn

SpecEngine == Init /\ [][NextEngine]_vars

\* =================================================================== properties
HeldTotal(e) == SumOver([t \in Threads |-> held[t][e]], Threads)
InRelease(e) == {t \in Threads : tpc[t] = "Release" /\ tobj[t] = e}

\* C1: while an entity is alive, after N AddRef() and M Release() calls made
\* in any interleaving by several threads, GetRefCount() is 1 + N - M.
C1_RefCountIsOnePlusAddsMinusReleases ==
  \A e \in Entities :
    mem[e] = "live" => RefCount[e] = 1 + addRefCalls[e] - releaseCalls[e]

\* two AddRef and a completed Release have happened while another thread is
\* in the middle of its own Release
C1_Witness ==
  \E e \in Entities :
    /\ mem[e] = "live"
    /\ addRefCalls[e] >= 2
    /\ releaseCalls[e] >= 2
    /\ RefCount[e] >= 1
    /\ InRelease(e) # {}

C2_Counter ==
  \A e \in Entities :
    /\ mem[e] = "live" => RefCount[e] >= 0
    /\ deleteCount[e] <= 1
    /\ deleteCount[e] = 1 <=> mem[e] = "freed"
    /\ Cardinality({t \in InRelease(e) : told[t] = 1}) <= 1
    /\ (mem[e] # "unalloc" /\ HeldTotal(e) = 0 /\ InRelease(e) = {})
         => (mem[e] = "freed" /\ deleteCount[e] = 1)

C2_Destroyer ==
  \A e \in Entities :
    deleteCount'[e] # deleteCount[e] =>
      \E t \in InRelease(e) : told[t] = 1 /\ RefCount[e] = 0 /\ tpc'[t] = "idle"

\* C2: the counter of a live entity is never negative, and the entity is
\* destroyed exactly once, by the Release() call whose fetch_sub observed 1,
\* in that call, whatever the interleaving of the threads' Release() calls.
C2_DestroyedExactlyOnce == []C2_Counter /\ [][C2_Destroyer]_vars

\* two threads are inside Release() of the same entity, one having fetched 2
\* and the other 1
C2_Witness ==
  \E e \in Entities : \E t, u \in InRelease(e) :
    t # u /\ told[t] = 2 /\ told[u] = 1 /\ mem[e] = "live"

Flag(e, f) == f \in ObjectFlagsPrivate[e]

\* DestroyObject(e) has been called and has returned
Destroyed(e) == destroyCalls[e] >= 1 /\ ~CreatorRefHeld(e)

\* C3: whatever CreateObject, DestroyObject (once per entity) and
\* the ObjectPtr operations do, neither registry map refers to an entity whose
\* storage has been reclaimed.
C3_NoReclaimedEntityRegistered ==
  \A e \in Entities : mem[e] = "freed" => ~InRegistry(e)

\* C4: a Release() that reclaims an entity which never went through
\* DestroyObject and is still registered removes it from the registry.
C4_ReleaseToZeroUnregisters ==
  [][\A e \in Entities :
       (mem[e] = "live" /\ mem'[e] = "freed" /\ destroyCalls[e] = 0 /\ InRegistry(e))
         => ~InRegistry(e)']_vars

\* C5 as stated: an entity leaves the registry only once FinishDestroy has set
\* its flag.
C5_UnregisteredAfterFinishDestroy ==
  [][\A e \in Entities :
       (InByClass(e) /\ ~InByClass(e)') => Flag(e, F_FinishDestroyed)]_vars

C5_Step(e) ==
  /\ (~Flag(e, F_BeginDestroyed) /\ Flag(e, F_BeginDestroyed)')
       => (InByClass(e) /\ ~Flag(e, F_FinishDestroyed) /\ mem[e] = "live")
  /\ (InByClass(e) /\ ~InByClass(e)')
       => (Flag(e, F_BeginDestroyed) /\ ~Flag(e, F_FinishDestroyed) /\ mem'[e] = "live")
  /\ (~Flag(e, F_FinishDestroyed) /\ Flag(e, F_FinishDestroyed)')
       => (Flag(e, F_BeginDestroyed) /\ ~InByClass(e) /\ mem'[e] = "live"
           /\ RefCount'[e] = RefCount[e])
  /\ (pc = "DO_Release" /\ cur = e /\ pc' # pc)
       => (Flag(e, F_BeginDestroyed) /\ Flag(e, F_FinishDestroyed) /\ ~InByClass(e)
           /\ RefCount[e] >= 1
           /\ (mem'[e] = "live" => RefCount'[e] = RefCount[e] - 1))

\* C5, amended: DestroyObject sets BeginDestroyed, then unregisters the
\* entity, then sets FinishDestroyed, then releases the creator's reference:
\* the unregistration comes after BeginDestroy and before FinishDestroy.
C5_DestroyOrder == [][\A e \in Entities : C5_Step(e)]_vars

\* DestroyObject has unregistered the entity and has not yet called
\* FinishDestroy
C5_Witness ==
  /\ pc = "DO_FinishDestroy"
  /\ Flag(cur, F_BeginDestroyed)
  /\ ~Flag(cur, F_FinishDestroyed)
  /\ regCalls[cur] = 1
  /\ ~InRegistry(cur)

\* C6: after DestroyObject(e) the entity lives exactly as long as an
\* Owning Reference holds it, and while it lives it is in neither registry
\* map and its counter is the number of those references.
C6_AliveWhileReferenced ==
  \A e \in Entities :
    Destroyed(e) =>
      /\ Ptr[e] >= 1 => (mem[e] = "live" /\ RefCount[e] = Ptr[e] /\ ~InRegistry(e))
      /\ Ptr[e] = 0 => mem[e] = "freed"

\* C7: CreateObject registers the new entity, then calls
\* PostInitProperties once, then returns it with counter 1, and FindObject of
\* its full name returns it.
C7_RegisteredThenInitialised ==
  /\ pc = "CO_Register" => (regCalls[cur] = 0 /\ postInitCalls[cur] = 0)
  /\ pc = "CO_PostInit" =>
       (regCalls[cur] = 1 /\ postInitCalls[cur] = 0 /\ InByClass(cur))
  /\ (pc = "CO_Return" /\ cur # Null) =>
       (regCalls[cur] = 1 /\ postInitCalls[cur] = 1 /\ RefCount[cur] = 1)
  /\ \A e \in Entities : postInitCalls[e] <= 1
  /\ (pc = "CO_Return" /\ cur # Null) =>
       \A n \in FullNameOutcomes(cur) : FindObject(n) = cur

clientState == <<objVars, regVars, Ptr, histVars>>

\* a CreateObject call of SpecCreate whose Class is absent or the base Class
C8_AbsentClassCall ==
  \E c \in {NullClass, BaseClass}, o \in RawPointers, n \in NameSet :
    /\ (c # NullClass /\ FactoryProduces(c)) => NumAllocated < MaxRegObjects
    /\ CO_Call(c, o, n)

\* C8: CreateObject with an absent Class or with the base Class returns
\* nullptr, registers nothing and calls no PostInitProperties; DestroyObject
\* of nullptr changes nothing.
C8_AbsentInputsChangeNothing ==
  [][/\ C8_AbsentClassCall =>
          (cur' = Null /\ pc' = "CO_Return" /\ UNCHANGED clientState)
     /\ (pc = "CO_Return" /\ cur = Null) => (pc' = "idle" /\ UNCHANGED clientState)
     /\ DO_Call(Null) => (pc' = "DO_Return" /\ UNCHANGED clientState)
     /\ pc = "DO_Return" => (pc' = "idle" /\ UNCHANGED clientState)]_vars

\* CreateObject is returning nullptr while an entity is registered
C8_Witness ==
  /\ pc = "CO_Return"
  /\ cur = Null
  /\ \E e \in Entities : mem[e] = "live" /\ InNameMap(e) /\ InByClass(e)

\* C9: registering an entity whose full name is the key of another entity
\* overwrites that entry (one entry for the name, mapped to the second
\* entity), and each entity stays in the collection of its own Class.
C9_SecondRegistrationWins ==
  [][(pc = "CO_Register" /\ pc' # pc) =>
       LET n == GetFullName(cur) IN
         /\ n \in DOMAIN Objects' /\ Objects'[n] = cur
         /\ DOMAIN Objects' = DOMAIN Objects \cup {n}
         /\ Cardinality({k \in DOMAIN Objects' : Objects'[k] = cur}) = 1
         /\ \A k \in DOMAIN Objects \ {n} : Objects'[k] = Objects[k]
         /\ cur \in Range(ObjectsByClass'[ClassPrivate[cur]])
         /\ \A x \in Entities :
              InByClass(x) => x \in Range(ObjectsByClass'[ClassPrivate[x]])]_vars

\* two entities of different classes resolve to the same full name, the
\* second has just been registered
C9_Witness ==
  /\ pc = "CO_PostInit"
  /\ \E x \in Entities :
       /\ x # cur
       /\ mem[x] = "live"
       /\ GetFullName(x) = GetFullName(cur)
       /\ ClassPrivate[x] # ClassPrivate[cur]
       /\ FindObject(GetFullName(cur)) = cur
       /\ ~InNameMap(x)
       /\ x \in Range(GetObjectsOfClass(ClassPrivate[x]))
       /\ cur \in Range(GetObjectsOfClass(ClassPrivate[cur]))

IsNot(e) == [x \in Entities |-> x # e]

RECURSIVE Keep(_, _)
\* the elements of s that satisfy keep, in their order
Keep(s, keep) ==
  IF s = <<>> THEN <<>>
  ELSE (IF keep[Head(s)] THEN <<Head(s)>> ELSE <<>>) \o Keep(Tail(s), keep)

\* C10: UnregisterObject(e) leaves no occurrence of e in the collection of
\* its Class, also when e was renamed after it was registered, and keeps the
\* other entities of that collection in their order.
C10_RemovedByIdentity ==
  [][\A e \in Entities :
       (/\ pc = "idle" /\ pc' = "idle" /\ Name' = Name /\ regCalls' = regCalls
        /\ mem[e] = "live" /\ ClassPrivate[e] # NullClass
        /\ Reg_Unregister(e)) =>
         LET c == ClassPrivate[e] IN
           /\ e \notin Range(ObjectsByClass'[c])
           /\ ObjectsByClass'[c] = Keep(GetObjectsOfClass(c), IsNot(e))]_vars

\* an entity renamed while registered has been unregistered: its old key is
\* still in the name map, it is out of its Class's collection, and two other
\* entities remain there
C10_Witness ==
  \E e \in Entities :
    /\ mem[e] = "live"
    /\ regCalls[e] >= 1
    /\ InNameMap(e)
    /\ GetFullName(e) \notin DOMAIN Objects
    /\ ~InByClass(e)
    /\ \E x, y \in Entities \ {e} :
         x < y /\ GetObjectsOfClass(ClassPrivate[e]) = <<x, y>>

\* C11: GetObjectsOfClass(c) is the sequence of the entities registered and
\* not unregistered since whose own Class is exactly c, in registration
\* order: none of a subclass or superclass of c, and empty when there is none.
C11_ExactClassInRegistrationOrder ==
  \A c \in Classes :
    GetObjectsOfClass(c) = Keep(regOrder, [x \in Entities |-> ClassPrivate[x] = c])

\* entities of a class and of its subclass are registered, one entity has
\* been unregistered, and nothing is registered under the base Class
C11_Witness ==
  /\ pc = "idle"
  /\ Len(GetObjectsOfClass("K1")) >= 1
  /\ Len(GetObjectsOfClass("K2")) >= 1
  /\ GetObjectsOfClass(BaseClass) = <<>>
  /\ \E e \in Entities :
       mem[e] = "live" /\ regCalls[e] = 1 /\ e \notin Range(regOrder)

\* a step of Spec made by an ObjectPtr operation: the client thread is
\* outside CreateObject and DestroyObject before and after it
HandleStep == pc = "idle" /\ pc' = "idle"

C12_Balanced(e) ==
  (HandleStep /\ mem[e] = "live") =>
    /\ mem'[e] = "live" => RefCount'[e] - RefCount[e] = Ptr'[e] - Ptr[e]
    /\ mem'[e] = "freed" <=> (RefCount[e] = 1 /\ Ptr'[e] = Ptr[e] - 1)
    /\ deleteCount'[e] = deleteCount[e] + (IF mem'[e] = "freed" THEN 1 ELSE 0)

C12_NoDoubleFree == ~uaf /\ \A e \in Entities : deleteCount[e] <= 1

\* C12: every handle made on an entity raises its counter by one and every
\* handle released lowers it by one, so a handle copied twice and the three
\* handles released leave the counter where it was; the release that takes
\* the counter from 1 to 0 destroys the entity, once.
C12_CopiesReleasedRestoreCounter ==
  []C12_NoDoubleFree /\ [][\A e \in Entities : C12_Balanced(e)]_vars

\* three handles (one and two copies) are all that keeps an entity alive
C12_Witness ==
  \E e \in Entities :
    /\ mem[e] = "live"
    /\ Ptr[e] = 3
    /\ RefCount[e] = 3
    /\ destroyCalls[e] = 1
    /\ pc = "idle"

C13_MoveConstruct ==
  \A q \in PtrValues :
    (HandleStep /\ Ptr[q] >= 1 /\ PtrMove(q)) =>
      /\ RefCount' = RefCount
      /\ Ptr'[Null] = Ptr[Null] + 1
      /\ \A x \in Entities : Ptr'[x] = Ptr[x]

C13_Copy ==
  /\ \A q \in Entities :
       (HandleStep /\ Ptr[q] >= 1 /\ PtrCopy(q)) => (RefCount'[q] = RefCount[q] + 1
                      /\ \A x \in Entities \ {q} : RefCount'[x] = RefCount[x])
  /\ (PtrCopy(Null) \/ PtrFromRaw(Null) \/ PtrDefault) => RefCount' = RefCount
  /\ PtrDestroy(Null) => RefCount' = RefCount

\* C13 as stated: a move (construction or assignment) leaves the counter of
\* the transferred entity unchanged and the source absent, a copy adds exactly
\* one, and an absent reference changes no counter.
C13_MoveKeepsCounter ==
  [][/\ C13_MoveConstruct
     /\ C13_Copy
     /\ \A p \in PtrValues, q \in Entities :
          (HandleStep /\ TwoHandles(p, q) /\ PtrMoveAssign(p, q, FALSE)) =>
            (RefCount'[q] = RefCount[q] /\ Ptr'[Null] >= 1)
     /\ \A p \in PtrValues :
          (HandleStep /\ PtrMoveAssign(p, p, TRUE)) => UNCHANGED <<RefCount, Ptr>>]_vars

\* C13, amended: the same, except that a move assignment first releases what
\* the destination held: when the destination already held the transferred
\* entity, that entity's counter drops by one.
C13_MoveKeepsCounterOfOtherEntity ==
  [][/\ C13_MoveConstruct
     /\ C13_Copy
     /\ \A p \in PtrValues, q \in Entities :
          (HandleStep /\ TwoHandles(p, q) /\ PtrMoveAssign(p, q, FALSE)) =>
            /\ Ptr'[Null] >= 1
            /\ p # q => RefCount'[q] = RefCount[q]
            /\ p = q => RefCount'[q] = RefCount[q] - 1
     /\ \A p \in PtrValues :
          (HandleStep /\ PtrMoveAssign(p, p, TRUE)) => UNCHANGED <<RefCount, Ptr>>]_vars

\* a handle has given its entity to another handle: one handle holds the
\* entity next to the creator's reference, another one is absent
C13_Witness ==
  \E e \in Entities :
    /\ mem[e] = "live"
    /\ Ptr[e] = 1
    /\ Ptr[Null] >= 1
    /\ RefCount[e] = 2
    /\ destroyCalls[e] = 0

\* C14: a handle is valid (IsValid, operator bool, not operator!) exactly
\* when it holds an entity, whatever the flags of that entity: a handle that
\* keeps an entity alive after DestroyObject is still valid.
C14_ValidIffPresent ==
  \A p \in PtrValues :
    Ptr[p] >= 1 =>
      /\ IsValid(p) <=> p \in Entities
      /\ OperatorBool(p) <=> p \in Entities
      /\ OperatorNot(p) <=> p \notin Entities
      /\ p \in Entities => mem[p] = "live"

\* a handle keeps alive an entity that DestroyObject has been through, and
\* another handle is absent
C14_Witness ==
  /\ pc = "idle"
  /\ Ptr[Null] >= 1
  /\ \E e \in Entities :
       /\ Ptr[e] >= 1
       /\ mem[e] = "live"
       /\ destroyCalls[e] = 1
       /\ Flag(e, F_BeginDestroyed)
       /\ Flag(e, F_FinishDestroyed)

C15_Reports ==
  /\ \A e \in Entities :
       mem[e] = "live" => (IsPendingKill(e) <=> F_BeginDestroyed \in ObjectFlagsPrivate[e])
  /\ pc = "CO_Register" => ~IsPendingKill(cur)

C15_Changes(e) ==
  (mem[e] = "live" /\ mem'[e] = "live") =>
    /\ DO_Call(e) => IsPendingKill(e)'
    /\ (pc \in DO_Steps /\ cur = e) => IsPendingKill(e)'
    /\ (~IsPendingKill(e) /\ IsPendingKill(e)') =>
         (DO_Call(e) \/ \E fl \in FlagArgs : Flags_Set(e, fl) \/ Flags_Add(e, fl))
    /\ (IsPendingKill(e) /\ ~IsPendingKill(e)') =>
         \E fl \in FlagArgs : Flags_Set(e, fl) \/ Flags_Remove(e, fl)

\* C15: IsPendingKill() reports the BeginDestroyed bit: false for a new
\* entity, true from BeginDestroy on, through DestroyObject and while the
\* entity survives, and false again only after SetFlags or RemoveFlags has
\* cleared the bit.
C15_PendingKillIsBeginDestroyed ==
  []C15_Reports /\ [][\A e \in Entities : C15_Changes(e)]_vars

\* two entities survive DestroyObject through a handle; one is still pending
\* kill, the bit of the other has been cleared
C15_Witness ==
  /\ pc = "idle"
  /\ \E e, x \in Entities :
       /\ e # x
       /\ mem[e] = "live" /\ destroyCalls[e] = 1 /\ Ptr[e] >= 1 /\ IsPendingKill(e)
       /\ mem[x] = "live" /\ destroyCalls[x] = 1 /\ Ptr[x] >= 1 /\ ~IsPendingKill(x)

\* the entity plus its ancestors
Depth(e) == Cardinality(OuterChain(e)) + 1

\* the names along the Outer chain of e, the root's first, e's own last
Segments(e) ==
  [k \in 1..Depth(e) |->
     Name[CHOOSE x \in OuterChain(e) \cup {e} : Depth(x) = k]]

RECURSIVE JoinWith(_, _)
JoinWith(segs, sep) ==
  IF Len(segs) = 0 THEN <<>>
  ELSE IF Len(segs) = 1 THEN segs[1]
  ELSE segs[1] \o sep \o JoinWith(Tail(segs), sep)

\* C16: for an entity with D - 1 ancestors, all allocated, GetFullName() is
\* the D names of its Outer chain, root first and its own last, joined by ".".
C16_FullNameIsChainJoinedByDots ==
  \A e \in Entities :
    (mem[e] = "live" /\ ChainAlive(e)) =>
      /\ e \notin OuterChain(e)
      /\ Len(Segments(e)) = Depth(e)
      /\ GetFullName(e) = JoinWith(Segments(e), <<".">>)

\* an entity two levels below a root whose name differs from its own
C16_Witness ==
  \E e \in Entities :
    /\ mem[e] = "live"
    /\ ChainAlive(e)
    /\ Depth(e) = 3
    /\ Segments(e)[1] # Segments(e)[3]
    /\ regCalls[e] = 1

\* ---- C17
\* C17: primitive variables (bool, signed and unsigned 8/16/32/64-bit
\* integers, strings, the empty string among them) saved through operator<<
\* into a saving MemoryArchive and loaded in the same order by a fresh loading
\* archive over the same bytes come back with the values that were saved, no
\* error is signalled, and once all are loaded the loading cursor stands at
\* the end of the buffer.
C17_PrimitivesRoundTrip ==
  (IsLoading(Archive) /\ ~arTruncated) =>
    /\ arError = "none"
    /\ loaded = SubSeq(saved, 1, Len(loaded))
    /\ (Len(loaded) = Len(saved) => Position = Len(Data))

C17_Witness ==
  /\ IsLoading(Archive) /\ ~arTruncated
  /\ Len(loaded) = Len(saved) /\ Len(loaded) >= 2
  /\ loaded[1].type = "int8"
  /\ loaded[2].type = "string" /\ loaded[2].val # <<>>

\* ---- C18
RECURSIVE EncodeElements(_, _)
EncodeElements(t, array) ==
  IF array = <<>> THEN <<>>
  ELSE Encode(t, Head(array)) \o EncodeElements(t, Tail(array))

C18_Saved ==
  (IsSaving(Archive) /\ saved # <<>>) =>
    /\ Data = ToBytes(Len(saved[1].val), 4)
                \o EncodeElements(saved[1].type, saved[1].val)
    /\ (Len(saved[1].val) = 0 => Data = <<0, 0, 0, 0>>)

C18_Loaded ==
  (IsLoading(Archive) /\ ~arTruncated) =>
    /\ arError = "none"
    /\ (loaded # <<>> => dest = saved[1].val /\ Position = Len(Data))

\* C18: SerializeArray on a saving archive writes the element count as a
\* 32-bit unsigned prefix and then the elements in order, an empty vector
\* being the four zero bytes of the prefix and nothing else; on a loading
\* archive over the same bytes it reads the prefix, resizes the destination
\* to it and reads each element, so that the destination ends up equal to
\* the vector that was saved.
C18_ArrayRoundTrip == C18_Saved /\ C18_Loaded

C18_Witness ==
  /\ IsLoading(Archive) /\ ~arTruncated
  /\ loaded # <<>>
  /\ saved[1].type = "int16"
  /\ Len(dest) >= 2 /\ dest[1] # dest[2]

\* ---- C19
\* the prefix at the cursor announces more elements than bytes are left
C19_Implausible ==
  /\ IsLoading(Archive) /\ arError = "none" /\ loaded = <<>>
  /\ Remaining(Archive) >= 4
  /\ FromBytesU(ReadBytes(Archive, 4)) > Remaining(Archive) - 4

\* C19: when a loading SerializeArray meets a length prefix larger than the
\* remaining data can hold, the count is bounded before the resize: the
\* destination is not resized to that count and a resource-exhaustion error
\* is signalled.
C19_LargePrefixRejected ==
  [][(C19_Implausible /\ Ar_LoadArray) =>
       (arError' = "resource" /\ dest' = dest)]_vars

\* ---- C20
\* bytes the next load needs at the cursor
Need(ar, t) ==
  IF t # "string" THEN Width(t)
  ELSE IF Remaining(ar) < 4 THEN 4 ELSE 4 + FromBytesU(ReadBytes(ar, 4))

C20_Short ==
  /\ IsLoading(Archive) /\ arError = "none"
  /\ Len(loaded) < Len(saved)
  /\ Need(Archive, NextSaved.type) > Remaining(Archive)

C20_Signals ==
  /\ Position <= Len(Data)
  /\ C20_Short =>
       LET t == NextSaved.type
           r == Serialize(Archive, t, DefaultValue(t))
       IN /\ r.ar.err = "bounds"
          /\ r.v = DefaultValue(t)
          /\ r.ar.Position = Position /\ r.ar.Data = Data

C20_Step ==
  (C20_Short /\ Ar_Load) =>
    /\ arError' = "bounds"
    /\ loaded' = loaded
    /\ Position' <= Len(Data')

C21_Exclusive == ~(IsLoading(Archive) /\ IsSaving(Archive))

\* a step that constructs an archive
C21_Constructs ==
  \/ \E loading \in BOOLEAN : Ar_Construct(loading)
  \/ \E k \in 0..Len(Data) : Ar_Open(k, <<>>)

C21_Fixed ==
  C21_Constructs \/ /\ IsLoading(Archive') <=> IsLoading(Archive)
                    /\ IsSaving(Archive') <=> IsSaving(Archive)

C22_OthersKept(p, q) ==
  \A x \in Entities \ {p, q} : RefCount'[x] = RefCount[x] /\ mem'[x] = mem[x]

\* *this held p, other holds q, two different handles
C22_Assign(p, q) ==
  (HandleStep /\ TwoHandles(p, q) /\ PtrCopyAssign(p, q, FALSE)) =>
    /\ C22_OthersKept(p, q)
    /\ (p # q /\ p # Null) =>
         /\ mem'[p] = "freed" <=> RefCount[p] = 1
         /\ mem'[p] = "live" => RefCount'[p] = RefCount[p] - 1
         /\ deleteCount'[p] = deleteCount[p] + (IF RefCount[p] = 1 THEN 1 ELSE 0)
    /\ (p # q /\ q # Null) =>
         /\ mem'[q] = "live"
         /\ RefCount'[q] = RefCount[q] + 1
    /\ p = q => UNCHANGED <<RefCount, mem, deleteCount>>

\* C22: copy assignment between two handles lowers the counter of the entity
\* the target held by exactly one, destroying it when that was its last
\* reference, and raises the counter of the entity it now holds by exactly
\* one; self-assignment changes nothing, and when both handles already hold
\* the same entity its counter is unchanged and it is not destroyed.
C22_CopyAssignMovesOneReference ==
  [][/\ \A p, q \in PtrValues : C22_Assign(p, q)
     /\ \A p \in PtrValues :
          (HandleStep /\ PtrCopyAssign(p, p, TRUE)) =>
            UNCHANGED <<RefCount, mem, deleteCount, Ptr>>
     /\ ~uaf']_vars

\* a copy assignment took the last reference of p away: p, destroyed before
\* while a handle held it, is reclaimed and q is held by two handles
C22_Witness ==
  \E p, q \in Entities :
    /\ p # q
    /\ mem[p] = "freed" /\ deleteCount[p] = 1 /\ destroyCalls[p] = 1
    /\ mem[q] = "live" /\ Ptr[q] = 2 /\ RefCount[q] = 3
    /\ Ptr[Null] = 0 /\ Ptr[p] = 0
    /\ pc = "idle"

\* ---- C23
\* C23: in every state CreateObject, one DestroyObject per entity and the
\* ObjectPtr operations reach, the counter of a live entity is the number of
\* handles holding it, plus one while DestroyObject has not released the
\* reference the entity was created with.
C23_CounterIsHandlesPlusCreator ==
  \A e \in Entities :
    mem[e] = "live" =>
      RefCount[e] = HandlesOn(e) + (IF CreatorRefHeld(e) THEN 1 ELSE 0)

\* one entity kept alive by two handles after its DestroyObject, next to an
\* entity that has its creator's reference and one handle
C23_Witness ==
  \E e, f \in Entities :
    /\ mem[e] = "live" /\ ~CreatorRefHeld(e) /\ HandlesOn(e) = 2 /\ RefCount[e] = 2
    /\ mem[f] = "live" /\ CreatorRefHeld(f) /\ HandlesOn(f) = 1 /\ RefCount[f] = 2
    /\ pc = "idle"

\* ---- C24
\* C24: the storage of an entity is not reclaimed while a handle holds it,
\* also when DestroyObject is called again on an entity that is still alive.
C24_NotReclaimedWhileHeld ==
  \A e \in Entities : HandlesOn(e) >= 1 => mem[e] # "freed"

\* ---- C25
\* C25: UnregisterObject(e) takes away only a mapping of the name map that
\* points to e: every other registered entity FindObject returns under its
\* full name is returned under it afterwards as well, also when e resolves
\* to the same full name.
C25_OtherLookupsKept ==
  [][\A e, f \in Entities :
       (/\ pc = "idle" /\ pc' = "idle" /\ Name' = Name /\ regCalls' = regCalls
        /\ e # f /\ mem[e] = "live" /\ mem[f] = "live"
        /\ FindObject(GetFullName(f)) = f
        /\ Reg_Unregister(e)) =>
         /\ GetFullName(f) \in DOMAIN Objects'
         /\ Objects'[GetFullName(f)] = f]_vars

\* ---- C26
\* the call received at place i is preceded by an Initialize of the same
\* subsystem
C26_InitializedBefore(i) ==
  \E j \in 1..(i - 1) :
    subCalls[j].sub = subCalls[i].sub /\ subCalls[j].call = "Initialize"

\* C26: a subsystem that receives Update or Shutdown has received Initialize
\* before, and no subsystem receives Initialize twice without a Shutdown in
\* between.
C26_InitializeBeforeUpdateAndShutdown ==
  \A i \in 1..Len(subCalls) :
    /\ subCalls[i].call \in {"Update", "Shutdown"} => C26_InitializedBefore(i)
    /\ subCalls[i].call = "Initialize" =>
         \A j \in 1..(i - 1) :
           (subCalls[j].sub = subCalls[i].sub /\ subCalls[j].call = "Initialize") =>
             \E k \in (j + 1)..(i - 1) :
               subCalls[k].sub = subCalls[i].sub /\ subCalls[k].call = "Shutdown"

====
